---- MODULE Spec2Model ----
(***************************************************************************)
(* A model of the shaping-check harness of aliftype/tools:                 *)
(*   src/check-shaping.py         the checks, the generic runner, the      *)
(*                                report reduction and main                *)
(*   src/update-shaping-tests.py  the writer of test documents             *)
(*                                                                         *)
(* Python strings that come from the documents or the font (glyph names,   *)
(* serialized glyph streams, forbidden patterns, input texts, font file    *)
(* names) are sequences of one-character strings.  The fixed strings of    *)
(* the code (message codes, headers) are TLA+ strings.  A JSON object is a *)
(* function whose DOMAIN is the set of keys that are present.              *)
(***************************************************************************)
EXTENDS Integers, Sequences, FiniteSets, TLC

VARIABLES
    config,               \* main: the yaml configuration (its "test_directory")
    directory,            \* the files shaping_basedir.glob("*.json") enumerates, in order
    font,                 \* the font under test: file name, glyph names, collaborators
    var_coords,           \* the font's variation coordinates (get_var_coords_design)
    check,                \* generate_html: index of the check being drained (run_checks order)
    pc,                   \* position of the generator / of main
    fileIdx,              \* run_a_set_of_shaping_tests: files consumed by the for loop
    shaping_file_found,   \* run_a_set_of_shaping_tests local
    ran_a_test,           \* run_a_set_of_shaping_tests local
    extra_data,           \* run_a_set_of_shaping_tests local
    results,              \* every (status, Message) yielded so far, with its check
    all_pass,             \* generate_html local
    exit_status,          \* what sys.exit receives, as a process exit status
    history,              \* per processed file: what the runner did with it
    call,                 \* arguments of a function applied on its own
    ret                   \* its result

vars == <<config, directory, font, var_coords, check, pc, fileIdx, shaping_file_found,
          ran_a_test, extra_data, results, all_pass, exit_status, history,
          call, ret>>

(***************************************************************************)
(* Strings as sequences of characters                                      *)
(***************************************************************************)

RECURSIVE Join(_, _)
\* sep.join(strs)
Join(strs, sep) ==
    IF strs = <<>> THEN <<>>
    ELSE IF Len(strs) = 1 THEN strs[1]
    ELSE strs[1] \o sep \o Join(Tail(strs), sep)

\* c in s, for a one-character c
HasChar(s, c) == \E i \in 1..Len(s) : s[i] = c

\* s.startswith(p) and s.endswith(p)
StartsWith(s, p) == Len(s) >= Len(p) /\ SubSeq(s, 1, Len(p)) = p
EndsWith(s, p) == Len(s) >= Len(p) /\ SubSeq(s, Len(s) - Len(p) + 1, Len(s)) = p

\* sub in s, for strings: sub occurs as a contiguous slice of s
IsSubstring(sub, s) ==
    \E i \in 0..(Len(s) - Len(sub)) : SubSeq(s, i + 1, i + Len(sub)) = sub

Digit(d) == CASE d = 0 -> "0" [] d = 1 -> "1" [] d = 2 -> "2" [] d = 3 -> "3"
              [] d = 4 -> "4" [] d = 5 -> "5" [] d = 6 -> "6" [] d = 7 -> "7"
              [] d = 8 -> "8" [] d = 9 -> "9"

RECURSIVE NatToStr(_)
NatToStr(n) == IF n < 10 THEN <<Digit(n)>> ELSE NatToStr(n \div 10) \o <<Digit(n % 10)>>

\* "%i" % n
IntToStr(n) == IF n < 0 THEN <<"-">> \o NatToStr(-n) ELSE NatToStr(n)

(***************************************************************************)
(* JSON values, as json.loads and yaml.safe_load build them.  Every value  *)
(* carries its Python type, because the code branches on it (isinstance,   *)
(* truthiness, the meaning of "in").                                       *)
(***************************************************************************)

Null == [t |-> "null"]
Str(s) == [t |-> "str", s |-> s]
List(l) == [t |-> "list", l |-> l]
Obj(o) == [t |-> "dict", o |-> o]
Num(n) == [t |-> "num", n |-> n]

None == Null

EmptyDict == [k \in {} |-> Null]

\* bool(v)
Truthy(v) ==
    CASE v.t = "null" -> FALSE
      [] v.t = "str"  -> v.s # <<>>
      [] v.t = "list" -> v.l # <<>>
      [] v.t = "dict" -> DOMAIN v.o # {}
      [] v.t = "num"  -> v.n # 0

\* x in c, for a Python string x: list membership, substring of a string,
\* key of a dict
PyIn(x, c) ==
    CASE c.t = "list" -> \E i \in 1..Len(c.l) : c.l[i] = Str(x)
      [] c.t = "str"  -> IsSubstring(x, c.s)
      [] c.t = "dict" -> x \in DOMAIN c.o

\* dict.get(key, default)
Get(dict, key, default) == IF key \in DOMAIN dict THEN dict[key] ELSE default

(***************************************************************************)
(* Configuration resolver                                                  *)
(***************************************************************************)

\* Variant: the document's default takes precedence over the test's own value
get_from_defaults_first(test, configuration, key, default) ==
    LET defaults == Get(configuration, "defaults", Obj(EmptyDict))
    IN  Get(defaults.o, key, Get(test, key, default))

get_from_test_with_default(test, configuration, key, default) ==
    LET defaults == Get(configuration, "defaults", Obj(EmptyDict))
    IN  Get(test, key, Get(defaults.o, key, default))

ShapingParameterKeys == {"script", "language", "direction", "features", "shaper", "variations"}

get_shaping_parameters(test, configuration) ==
    [key \in ShapingParameterKeys |-> get_from_test_with_default(test, configuration, key, None)]

(***************************************************************************)
(* The font and the shaping collaborator                                   *)
(*                                                                         *)
(* A font is [name, glyphs, shape, collisions]: its file name, the glyph   *)
(* name of every glyph id (glyphs[gid + 1]), what hb.shape returns for a   *)
(* text, and what the collision detector returns for it.                   *)
(***************************************************************************)

\* font.glyph_to_string(gid)
glyph_to_string(f, gid) == f.glyphs[gid + 1]

\* font.glyph_from_string(name): the glyph id, or None
HasGlyph(f, name) == \E i \in 1..Len(f.glyphs) : f.glyphs[i] = name
glyph_from_string(f, name) == (CHOOSE i \in 1..Len(f.glyphs) : f.glyphs[i] = name) - 1

\* One glyph of an hb.Buffer: glyph_infos[i] and glyph_positions[i].  An
\* hb.GlyphInfo has no name attribute (named = FALSE).
Glyph(gid, cluster, x_offset, y_offset, x_advance) ==
    [codepoint |-> gid, cluster |-> cluster, named |-> FALSE, name |-> <<>>,
     position |-> <<x_offset, y_offset, x_advance, 0>>]

\* _FakeItem pairs built by _buffer_from_string
FakeGlyph(gid, cluster, named, name, x_offset, y_offset, x_advance) ==
    [codepoint |-> gid, cluster |-> cluster, named |-> named, name |-> name,
     position |-> <<x_offset, y_offset, x_advance, 0>>]

\* hb.shape under _SetVariations: the buffer the shaping engine returns
_shape(f, text, parameters) == f.shape[text]

(***************************************************************************)
(* Glyph buffer serializer                                                 *)
(***************************************************************************)

SerializeGlyph(f, g, glyphs_only) ==
    LET glyph_name == IF g.named THEN g.name ELSE glyph_to_string(f, g.codepoint)
        head == glyph_name \o <<"=">> \o IntToStr(g.cluster)
        offs == IF g.position[1] # 0 \/ g.position[2] # 0
                THEN <<"@">> \o IntToStr(g.position[1]) \o <<",">> \o IntToStr(g.position[2])
                ELSE <<>>
    IN  IF glyphs_only THEN glyph_name
        ELSE head \o offs \o <<"+">> \o IntToStr(g.position[3])

_serialize_buffer(f, buffer, glyphs_only) ==
    Join([i \in 1..Len(buffer) |-> SerializeGlyph(f, buffer[i], glyphs_only)], <<"|">>)

(***************************************************************************)
(* Glyph buffer parser: the inverse of the full encoding                   *)
(***************************************************************************)

Digits == {"0", "1", "2", "3", "4", "5", "6", "7", "8", "9"}

DigitVal(c) == CHOOSE d \in 0..9 : Digit(d) = c

RECURSIVE Split(_, _)
\* s.split(sep), for a one-character sep
Split(s, sep) ==
    IF ~HasChar(s, sep) THEN <<s>>
    ELSE LET i == CHOOSE k \in 1..Len(s) : s[k] = sep /\ \A j \in 1..(k - 1) : s[j] # sep
         IN  <<SubSeq(s, 1, i - 1)>> \o Split(SubSeq(s, i + 1, Len(s)), sep)

\* The length of the run of digits of s that starts at position i
DigitRun(s, i) ==
    CHOOSE n \in 0..(Len(s) - i + 1) :
        /\ \A j \in i..(i + n - 1) : s[j] \in Digits
        /\ (i + n <= Len(s) => s[i + n] \notin Digits)

RECURSIVE StrToNat(_)
StrToNat(s) == IF s = <<>> THEN 0 ELSE 10 * StrToNat(SubSeq(s, 1, Len(s) - 1)) + DigitVal(s[Len(s)])

\* \d+ read at position j of s, n being the length of the run of digits
\* there: whether it is there, int() of it (negated after a "-"), and the
\* position after it
ScanDigits(s, j, n, neg) ==
    [ok |-> n >= 1,
     val |-> IF neg THEN -StrToNat(SubSeq(s, j, j + n - 1)) ELSE StrToNat(SubSeq(s, j, j + n - 1)),
     next |-> j + n]

\* -?\d+ read at position i of s
ScanInt(s, i) ==
    IF i <= Len(s) /\ s[i] = "-"
    THEN ScanDigits(s, i + 1, DigitRun(s, i + 1), TRUE)
    ELSE ScanDigits(s, i, DigitRun(s, i), FALSE)

NoMatch == [ok |-> FALSE]

\* re.match(r"^(.*)=(\d+)(@(-?\d+),(-?\d+))?(\+(-?\d+))?$", item), read from
\* left to right.  The greedy (.*) ends at the last "=", since what follows
\* the "=" holds none; an "@" or a "+" can only be consumed by its group.
\* The groups are given as int(group or 0).

\* (\+(-?\d+))?$ with a the integer read after the "+"
MatchEnd(item, e, n, x_offset, y_offset, a) ==
    IF a.ok /\ a.next = Len(item) + 1
    THEN [ok |-> TRUE, name |-> SubSeq(item, 1, e - 1),
          cluster |-> StrToNat(SubSeq(item, e + 1, e + n)),
          x_offset |-> x_offset, y_offset |-> y_offset, x_advance |-> a.val]
    ELSE NoMatch

\* (\+(-?\d+))?$ at position p
MatchAdvance(item, e, n, x_offset, y_offset, p) ==
    IF p = Len(item) + 1
    THEN [ok |-> TRUE, name |-> SubSeq(item, 1, e - 1),
          cluster |-> StrToNat(SubSeq(item, e + 1, e + n)),
          x_offset |-> x_offset, y_offset |-> y_offset, x_advance |-> 0]
    ELSE IF item[p] = "+"
    THEN MatchEnd(item, e, n, x_offset, y_offset, ScanInt(item, p + 1))
    ELSE NoMatch

\* ,(-?\d+) of the offsets group, y being the integer read after the ","
MatchOffsetY(item, e, n, x_offset, y) ==
    IF y.ok THEN MatchAdvance(item, e, n, x_offset, y.val, y.next) ELSE NoMatch

\* @(-?\d+), of the offsets group, x being the integer read after the "@"
MatchOffsetX(item, e, n, x) ==
    IF x.ok /\ x.next <= Len(item) /\ item[x.next] = ","
    THEN MatchOffsetY(item, e, n, x.val, ScanInt(item, x.next + 1))
    ELSE NoMatch

\* (\d+) and what follows it: e is the position of the "=", n the length of
\* the run of digits after it
MatchCluster(item, e, n) ==
    IF n < 1 THEN NoMatch
    ELSE IF e + n + 1 <= Len(item) /\ item[e + n + 1] = "@"
    THEN MatchOffsetX(item, e, n, ScanInt(item, e + n + 2))
    ELSE MatchAdvance(item, e, n, 0, 0, e + n + 1)

LastEquals(item) ==
    CHOOSE k \in 1..Len(item) : item[k] = "=" /\ \A j \in (k + 1)..Len(item) : item[j] # "="

MatchAfterName(item, e) == MatchCluster(item, e, DigitRun(item, e + 1))

MatchGlyph(item) ==
    IF ~HasChar(item, "=") THEN NoMatch ELSE MatchAfterName(item, LastEquals(item))

\* The _FakeItem pair of a matched item
ParseGlyph(f, m) ==
    IF HasGlyph(f, m.name)
    THEN FakeGlyph(glyph_from_string(f, m.name), m.cluster, FALSE, <<>>,
                   m.x_offset, m.y_offset, m.x_advance)
    ELSE FakeGlyph(0, m.cluster, TRUE, m.name, m.x_offset, m.y_offset, m.x_advance)

BufferFromMatches(f, matches) ==
    IF \E i \in 1..Len(matches) : ~matches[i].ok
    THEN [raised |-> "ValueError", buffer |-> <<>>]
    ELSE [raised |-> "", buffer |-> [i \in 1..Len(matches) |-> ParseGlyph(f, matches[i])]]

MatchAll(items) == [i \in 1..Len(items) |-> MatchGlyph(items[i])]

\* _buffer_from_string: the _FakeBuffer, or the ValueError it raises
_buffer_from_string(f, text) == BufferFromMatches(f, MatchAll(Split(text, "|")))

(***************************************************************************)
(* Regular expressions, as far as forbidden-glyph patterns use them: a     *)
(* pattern is a sequence of atoms, each a backslash-escaped character (the *)
(* character itself), a "." (any character) or any other character         *)
(* (itself).                                                               *)
(***************************************************************************)

Backslash == "\\"

\* Variant: the pattern escaped as by re.escape, every character itself
RegexAtomsEscaped(pattern) ==
    [i \in 1..Len(pattern) |-> [any |-> FALSE, c |-> pattern[i]]]

RECURSIVE RegexAtoms(_)
RegexAtoms(pattern) ==
    IF pattern = <<>> THEN <<>>
    ELSE IF pattern[1] = Backslash /\ Len(pattern) >= 2
         THEN <<[any |-> FALSE, c |-> pattern[2]]>> \o RegexAtoms(SubSeq(pattern, 3, Len(pattern)))
    ELSE IF pattern[1] = "."
         THEN <<[any |-> TRUE, c |-> "."]>> \o RegexAtoms(Tail(pattern))
    ELSE <<[any |-> FALSE, c |-> pattern[1]]>> \o RegexAtoms(Tail(pattern))

\* bool(re.findall(pattern, string)): the pattern matches at some position
RegexFinds(pattern, string) ==
    LET atoms == RegexAtoms(pattern)
    IN  \E i \in 0..(Len(string) - Len(atoms)) :
            \A j \in 1..Len(atoms) : atoms[j].any \/ atoms[j].c = string[i + j]

(***************************************************************************)
(* Input expansion                                                         *)
(***************************************************************************)

StringType == <<"s", "t", "r", "i", "n", "g">>
PatternType == <<"p", "a", "t", "t", "e", "r", "n">>

\* StringBrewer(recipe, ingredients).generate_all(): the collaborator's
\* expansion of a recipe, given here by the ingredients themselves
generate_all(recipe, ingredients) == ingredients.o[recipe].l

\* get_input_strings: the list of texts, or the KeyError of a document
\* without "ingredients"
get_input_strings(test, configuration) ==
    LET input_type == get_from_test_with_default(test, configuration, "input_type", Str(StringType))
    IN  IF input_type = Str(PatternType)
        THEN IF "ingredients" \in DOMAIN configuration
             THEN [raised |-> "", strings |-> generate_all(test["input"].s, configuration["ingredients"])]
             ELSE [raised |-> "KeyError", strings |-> <<>>]
        ELSE [raised |-> "", strings |-> <<test["input"]>>]

(***************************************************************************)
(* Regression executor and its report                                      *)
(***************************************************************************)

DefaultKey == <<"d", "e", "f", "a", "u", "l", "t">>

\* expectation.get(fontpath.name, expectation["default"]) for a dict, and the
\* string itself otherwise
ResolveExpectation(f, given) ==
    IF given.t = "dict" THEN Get(given.o, f.name, given.o[DefaultKey]).s ELSE given.s

\* if output_serialized != expectation: failed_shaping_tests.append(...)
CompareSerialized(test, failed_shaping_tests, output_buf, expectation, output_serialized) ==
    [raised |-> "",
     failed |-> IF output_serialized # expectation
                THEN Append(failed_shaping_tests,
                            [test |-> test, expectation |-> expectation,
                             output_buf |-> output_buf,
                             output_serialized |-> output_serialized])
                ELSE failed_shaping_tests]

\* The serialization is glyph names only when the expectation holds no "+"
CompareExpectation(f, test, failed_shaping_tests, output_buf, expectation) ==
    CompareSerialized(test, failed_shaping_tests, output_buf, expectation,
                      _serialize_buffer(f, output_buf, ~HasChar(expectation, "+")))

\* run_shaping_regression: the accumulator after the call, or the KeyError of
\* expectation["default"], which is evaluated whether or not it is needed
run_shaping_regression(f, test, configuration, failed_shaping_tests, extra) ==
    IF test["expectation"].t = "dict" /\ DefaultKey \notin DOMAIN test["expectation"].o
    THEN [raised |-> "KeyError", failed |-> failed_shaping_tests]
    ELSE CompareExpectation(f, test, failed_shaping_tests,
                            _shape(f, test["input"].s, get_shaping_parameters(test, configuration)),
                            ResolveExpectation(f, test["expectation"]))

\* The old_buf argument of create_report_item: absent, the expectation as a
\* string, or the _FakeBuffer parsed from it
NoBuf == [t |-> "none"]
StrBuf(s) == [t |-> "str", s |-> s]
FakeBuf(b) == [t |-> "fake", b |-> b]

\* create_report_item, as the fields the HTML fragment is formatted from
create_report_item(f, message, text, new_buf, old_buf, note) ==
    [message |-> message,
     text |-> text,
     note |-> note,
     old |-> CASE old_buf.t = "none" -> <<>>
               [] old_buf.t = "str"  -> old_buf.s
               [] old_buf.t = "fake" -> _serialize_buffer(f, old_buf.b, FALSE),
     new |-> _serialize_buffer(f, new_buf, old_buf.t = "str" /\ old_buf.s # <<>>)]

\* The report item of one failure whose expectation holds an "=", parsed
\* being what _buffer_from_string made of the expectation
ParsedItem(f, t, parsed) ==
    IF parsed.raised # ""
    THEN [raised |-> parsed.raised, item |-> None]
    ELSE [raised |-> "",
          item |-> create_report_item(f, <<"Shaping did not match">>, t.test["input"].s,
                                      t.output_buf, FakeBuf(parsed.buffer),
                                      Get(t.test, "note", None))]

\* One pass of the loop of generate_shaping_regression_report
RegressionItem(f, t) ==
    IF HasChar(t.expectation, "=")
    THEN ParsedItem(f, t, _buffer_from_string(f, t.expectation))
    ELSE [raised |-> "",
          item |-> create_report_item(f, <<"Shaping did not match">>, t.test["input"].s,
                                      t.output_buf, StrBuf(t.expectation),
                                      Get(t.test, "note", None))]

\* The Fail a report generator yields from the items it made, or the
\* exception that making one of them raised
ReportOf(code, made) ==
    IF \E i \in 1..Len(made) : made[i].raised # ""
    THEN [raised |-> "ValueError", code |-> "", items |-> <<>>]
    ELSE [raised |-> "", code |-> code, items |-> [i \in 1..Len(made) |-> made[i].item]]

generate_shaping_regression_report(f, configuration, shaping_file, failed_shaping_tests) ==
    ReportOf("shaping-regression",
             [i \in 1..Len(failed_shaping_tests) |-> RegressionItem(f, failed_shaping_tests[i])])

(***************************************************************************)
(* Forbidden-glyph executor and its report                                 *)
(***************************************************************************)

\* The pattern run_forbidden_glyph_test searches for
AnchorEnd(forbidden, pattern) ==
    IF ~EndsWith(forbidden, <<Backslash, "|">>) THEN pattern \o <<Backslash, "|">> ELSE pattern

\* Variant: the entry searched for as it is, without the \| on either side
ForbiddenPatternUnanchored(forbidden) == forbidden

ForbiddenPattern(forbidden) ==
    AnchorEnd(forbidden,
              IF ~StartsWith(forbidden, <<Backslash, "|">>)
              THEN <<Backslash, "|">> \o forbidden ELSE forbidden)

\* The failures one shaped text adds: one per forbidden entry found, in the
\* order of the forbidden_glyphs list
RECURSIVE ForbiddenFound(_, _, _, _)
ForbiddenFound(shaping_text, output_buf, glyph_names, forbidden_glyphs) ==
    IF forbidden_glyphs = <<>> THEN <<>>
    ELSE (IF RegexFinds(ForbiddenPattern(forbidden_glyphs[1].s), glyph_names)
          THEN <<[shaping_text |-> shaping_text, output_buf |-> output_buf,
                  forbidden |-> forbidden_glyphs[1].s]>>
          ELSE <<>>)
         \o ForbiddenFound(shaping_text, output_buf, glyph_names, Tail(forbidden_glyphs))

\* One pass of "for shaping_text in strings", output_buf being the shaped text
ForbiddenInText(f, shaping_text, output_buf, forbidden_glyphs) ==
    ForbiddenFound(shaping_text, output_buf,
                   <<"|">> \o _serialize_buffer(f, output_buf, TRUE) \o <<"|">>,
                   forbidden_glyphs)

RECURSIVE ForbiddenLoop(_, _, _, _, _)
ForbiddenLoop(f, strings, parameters, forbidden_glyphs, failed) ==
    IF strings = <<>> THEN failed
    ELSE ForbiddenLoop(f, Tail(strings), parameters, forbidden_glyphs,
                       failed \o ForbiddenInText(f, strings[1].s,
                                                 _shape(f, strings[1].s, parameters),
                                                 forbidden_glyphs))

ForbiddenOver(f, input, parameters, forbidden_glyphs, failed_shaping_tests) ==
    IF input.raised # ""
    THEN [raised |-> input.raised, failed |-> failed_shaping_tests]
    ELSE [raised |-> "",
          failed |-> ForbiddenLoop(f, input.strings, parameters, forbidden_glyphs,
                                   failed_shaping_tests)]

run_forbidden_glyph_test(f, test, configuration, failed_shaping_tests, extra) ==
    ForbiddenOver(f, get_input_strings(test, configuration),
                  get_shaping_parameters(test, configuration),
                  configuration["forbidden_glyphs"].l, failed_shaping_tests)

ForbiddenItem(f, t) ==
    [raised |-> "",
     item |-> create_report_item(f, <<"produced", t.forbidden>>, t.shaping_text,
                                 t.output_buf, NoBuf, None)]

forbidden_glyph_test_results(f, configuration, shaping_file, failed_shaping_tests) ==
    ReportOf("shaping-forbidden",
             [i \in 1..Len(failed_shaping_tests) |-> ForbiddenItem(f, failed_shaping_tests[i])])

(***************************************************************************)
(* Collision executor, its preparation and its report                      *)
(***************************************************************************)

\* setup_glyph_collides: a detector when the document configures one, and
\* otherwise a dict of four flags
setup_glyph_collides(f, configuration) ==
    IF ~Truthy(Get(configuration, "collidoscope", None))
    THEN Obj([k \in {"bases", "marks", "faraway", "adjacent_clusters"} |-> TRUE])
    ELSE Obj([k \in {"collidoscope"} |-> TRUE])

\* col.has_collisions(col.get_glyphs(text, buf)): the detector's pairs
has_collisions(f, shaping_text) == f.collisions[shaping_text]

\* f"{c.glyph1}/{c.glyph2}"
Bump(c) == c[1] \o <<"/">> \o c[2]

\* Variant: every bump kept, allowed or not
RemainingBumpsAll(collisions, allowed_collisions) ==
    [i \in 1..Len(collisions) |-> Bump(collisions[i])]

\* [b for b in bumps if b not in allowed_collisions]
RemainingBumps(collisions, allowed_collisions) ==
    SelectSeq([i \in 1..Len(collisions) |-> Bump(collisions[i])],
              LAMBDA b : ~PyIn(b, allowed_collisions))

\* if bumps: failed_shaping_tests.append(...)
CollidesRecord(failed, shaping_text, bumps, output_buf) ==
    IF bumps # <<>>
    THEN Append(failed, [shaping_text |-> shaping_text, bumps |-> bumps,
                         output_buf |-> output_buf])
    ELSE failed

RECURSIVE CollidesLoop(_, _, _, _, _)
CollidesLoop(f, strings, parameters, allowed_collisions, failed) ==
    IF strings = <<>> THEN failed
    ELSE CollidesLoop(f, Tail(strings), parameters, allowed_collisions,
                      CollidesRecord(failed, strings[1].s,
                                     RemainingBumps(has_collisions(f, strings[1].s),
                                                    allowed_collisions),
                                     _shape(f, strings[1].s, parameters)))

CollidesOver(f, input, parameters, extra, allowed_collisions, failed_shaping_tests) ==
    IF input.raised # ""
    THEN [raised |-> input.raised, failed |-> failed_shaping_tests]
    ELSE IF "collidoscope" \notin DOMAIN extra.o
    THEN [raised |-> "KeyError", failed |-> failed_shaping_tests]
    ELSE [raised |-> "",
          failed |-> CollidesLoop(f, input.strings, parameters, allowed_collisions,
                                  failed_shaping_tests)]

run_collides_glyph_test(f, test, configuration, failed_shaping_tests, extra) ==
    CollidesOver(f, get_input_strings(test, configuration),
                 get_shaping_parameters(test, configuration), extra,
                 get_from_test_with_default(test, configuration, "allowedcollisions", List(<<>>)),
                 failed_shaping_tests)

\* The failures the loop of collides_glyph_test_results does not skip: those
\* whose tuple(bumps) is not in seen_bumps yet
RECURSIVE UnseenBumps(_, _)
UnseenBumps(failed_shaping_tests, seen_bumps) ==
    IF failed_shaping_tests = <<>> THEN <<>>
    ELSE IF failed_shaping_tests[1].bumps \in seen_bumps
    THEN UnseenBumps(Tail(failed_shaping_tests), seen_bumps)
    ELSE <<failed_shaping_tests[1]>>
         \o UnseenBumps(Tail(failed_shaping_tests),
                        seen_bumps \cup {failed_shaping_tests[1].bumps})

CollidesItem(f, t) ==
    [raised |-> "",
     item |-> create_report_item(f, <<"collision found in", t.bumps, t.shaping_text>>,
                                 <<>>, t.output_buf, NoBuf, None)]

CollidesReport(f, reported) ==
    ReportOf("shaping-collides", [i \in 1..Len(reported) |-> CollidesItem(f, reported[i])])

collides_glyph_test_results(f, configuration, shaping_file, failed_shaping_tests) ==
    CollidesReport(f, UnseenBumps(failed_shaping_tests, {}))

(***************************************************************************)
(* The three checks: what each passes to the generic runner                *)
(***************************************************************************)

\* run_checks: the checks in the order generate_html drains them
Checks == <<"regression", "forbidden", "collides">>

test_filter(c, test, configuration) ==
    CASE c = "regression" -> "expectation" \in DOMAIN test
      [] c = "forbidden"  -> "forbidden_glyphs" \in DOMAIN configuration
      [] c = "collides"   -> "collidoscope" \in DOMAIN test \/ "collidoscope" \in DOMAIN configuration

run_a_test(c, f, test, configuration, failed_shaping_tests, extra) ==
    CASE c = "regression" -> run_shaping_regression(f, test, configuration, failed_shaping_tests, extra)
      [] c = "forbidden"  -> run_forbidden_glyph_test(f, test, configuration, failed_shaping_tests, extra)
      [] c = "collides"   -> run_collides_glyph_test(f, test, configuration, failed_shaping_tests, extra)

generate_report(c, f, configuration, shaping_file, failed_shaping_tests) ==
    CASE c = "regression" -> generate_shaping_regression_report(f, configuration, shaping_file, failed_shaping_tests)
      [] c = "forbidden"  -> forbidden_glyph_test_results(f, configuration, shaping_file, failed_shaping_tests)
      [] c = "collides"   -> collides_glyph_test_results(f, configuration, shaping_file, failed_shaping_tests)

\* extra_data after "if preparation: extra_data = preparation(fontpath, configuration)"
preparation(c, f, configuration, extra) ==
    IF c = "collides" THEN setup_glyph_collides(f, configuration) ELSE extra

(***************************************************************************)
(* The generic runner: the loop over the tests of one document             *)
(***************************************************************************)

\* The font is excluded by the test's "exclude" list
Excluded(f, test) == PyIn(f.name, Get(test, "exclude", List(<<>>)))

\* "only" is there, not empty, and the font is not in it
NotOnly(f, test) ==
    LET only_fonts == Get(test, "only", None)
    IN  Truthy(only_fonts) /\ ~PyIn(f.name, only_fonts)

\* The body of "for test in shaping_tests", from test i on.  acc carries
\* failed_shaping_tests, ran_a_test, the indices of the tests handed to the
\* executor, and how the loop ended: "completed", "missing-input" (the yield
\* and return of a test without input) or "raised" (an exception of the
\* executor, which nothing catches).
RECURSIVE RunTests(_, _, _, _, _, _, _)

\* After run_a_test returned r for test i: an exception ends the loop,
\* otherwise "ran_a_test = True" and on to the next test
AfterTest(c, f, tests, i, configuration, extra, acc, r) ==
    IF r.raised # ""
    THEN [acc EXCEPT !.outcome = "raised", !.raised = r.raised, !.failed = r.failed]
    ELSE RunTests(c, f, tests, i + 1, configuration, extra,
                  [acc EXCEPT !.failed = r.failed, !.ran = TRUE,
                              !.executed = Append(@, i)])

\* Variant: exclude and only looked at before the input
RunTestsRemovingFirst(c, f, tests, i, configuration, extra, acc) ==
    IF i > Len(tests) THEN acc
    ELSE IF ~test_filter(c, tests[i].o, configuration)
    THEN RunTests(c, f, tests, i + 1, configuration, extra, acc)
    ELSE IF Excluded(f, tests[i].o) \/ NotOnly(f, tests[i].o)
    THEN RunTests(c, f, tests, i + 1, configuration, extra, acc)
    ELSE IF "input" \notin DOMAIN tests[i].o
    THEN [acc EXCEPT !.outcome = "missing-input"]
    ELSE AfterTest(c, f, tests, i, configuration, extra, acc,
                   run_a_test(c, f, tests[i].o, configuration, acc.failed, extra))

RunTests(c, f, tests, i, configuration, extra, acc) ==
    IF i > Len(tests) THEN acc
    ELSE IF ~test_filter(c, tests[i].o, configuration)
    THEN RunTests(c, f, tests, i + 1, configuration, extra, acc)
    ELSE IF "input" \notin DOMAIN tests[i].o
    THEN [acc EXCEPT !.outcome = "missing-input"]
    ELSE IF Excluded(f, tests[i].o) \/ NotOnly(f, tests[i].o)
    THEN RunTests(c, f, tests, i + 1, configuration, extra, acc)
    ELSE AfterTest(c, f, tests, i, configuration, extra, acc,
                   run_a_test(c, f, tests[i].o, configuration, acc.failed, extra))

(***************************************************************************)
(* Results                                                                 *)
(***************************************************************************)

\* One (status, Message) pair as generate_html receives it: the check that
\* yielded it, the file its header names (0: none), code and items
Result(c, status, code, file, header, items) ==
    [check |-> c, status |-> status, code |-> code, file |-> file,
     header |-> header, items |-> items]

IsFail(r) == r.status = "Fail"

\* Variant: "if not status", which a Skip (None) satisfies too
AllPassOnlyPasses(ap, yielded) ==
    ap /\ \A i \in 1..Len(yielded) : yielded[i].status = "Pass"

\* generate_html's "if status is False: all_pass = False", over the results a
\* step yields
AllPassAfter(ap, yielded) == ap /\ \A i \in 1..Len(yielded) : ~IsFail(yielded[i])

(***************************************************************************)
(* run_a_set_of_shaping_tests, one iteration of "for shaping_file in ..."  *)
(***************************************************************************)

\* shaping_basedir.is_dir(): the one directory that exists
TestsDir == <<"t">>
is_dir(path) == path = TestsDir

NewAcc(ran) == [failed |-> <<>>, ran |-> ran, executed |-> <<>>, outcome |-> "completed",
                raised |-> ""]

\* Variant: "continue" in place of each "return" of the loop over the files
StepContinuing(c, n, yielded, next, extra, outcome, acc) ==
    [yielded |-> yielded, next |-> IF next = "returned" THEN "files" ELSE next,
     ran |-> acc.ran, extra |-> extra,
     hist |-> [check |-> c, file |-> n, outcome |-> outcome,
               executed |-> acc.executed, failed |-> acc.failed,
               yielded |-> yielded]]

\* What one iteration of the loop over the files leaves: the results it
\* yielded, where the generator is afterwards ("files": next iteration,
\* "returned": a return statement, "crashed": an exception left the
\* generator), its locals, and the record of the iteration
Step(c, n, yielded, next, extra, outcome, acc) ==
    [yielded |-> yielded, next |-> next, ran |-> acc.ran, extra |-> extra,
     hist |-> [check |-> c, file |-> n, outcome |-> outcome,
               executed |-> acc.executed, failed |-> acc.failed,
               yielded |-> yielded]]

\* "yield from generate_report(...)": the Fail, unless making it raised
YieldReport(c, n, extra, acc, report) ==
    IF report.raised # ""
    THEN Step(c, n, <<>>, "crashed", extra, "raised", acc)
    ELSE Step(c, n, <<Result(c, "Fail", report.code, n, "report", report.items)>>,
              "files", extra, "completed", acc)

\* Variant: without "if ran_a_test:", the verdict of a document decided by its
\* failures alone
AfterTestsUnguarded(c, f, n, configuration, extra, acc) ==
    CASE acc.outcome = "missing-input" ->
           Step(c, n, <<Result(c, "Fail", "shaping-missing-input", n,
                               "test is missing an input key.", <<>>)>>,
                "returned", extra, "missing-input", acc)
      [] acc.outcome = "raised" ->
           Step(c, n, <<>>, "crashed", extra, "raised", acc)
      [] acc.outcome = "completed" /\ acc.failed = <<>> ->
           Step(c, n, <<Result(c, "Pass", "pass", n, "No regression detected", <<>>)>>,
                "files", extra, "completed", acc)
      [] acc.outcome = "completed" /\ acc.failed # <<>> ->
           YieldReport(c, n, extra, acc, generate_report(c, f, configuration, n, acc.failed))

\* After the loop over the tests of file n ended as acc says
AfterTests(c, f, n, configuration, extra, acc) ==
    CASE acc.outcome = "missing-input" ->
           Step(c, n, <<Result(c, "Fail", "shaping-missing-input", n,
                               "test is missing an input key.", <<>>)>>,
                "returned", extra, "missing-input", acc)
      [] acc.outcome = "raised" ->
           Step(c, n, <<>>, "crashed", extra, "raised", acc)
      [] acc.outcome = "completed" /\ ~acc.ran ->
           Step(c, n, <<>>, "files", extra, "completed", acc)
      [] acc.outcome = "completed" /\ acc.ran /\ acc.failed = <<>> ->
           Step(c, n, <<Result(c, "Pass", "pass", n, "No regression detected", <<>>)>>,
                "files", extra, "completed", acc)
      [] acc.outcome = "completed" /\ acc.ran /\ acc.failed # <<>> ->
           YieldReport(c, n, extra, acc, generate_report(c, f, configuration, n, acc.failed))

\* The preparation, then the loop over the tests
WithPreparation(c, f, n, tests, configuration, ran, extra) ==
    AfterTests(c, f, n, configuration, extra,
               RunTests(c, f, tests, 1, configuration, extra, NewAcc(ran)))

\* A parsed document: its configuration and its tests
LoadedDocument(c, f, n, doc, ran, extra) ==
    IF "tests" \notin DOMAIN doc
    THEN Step(c, n, <<Result(c, "Fail", "shaping-missing-tests", n,
                             "JSON file must have a 'tests' key.", <<>>)>>,
              "returned", extra, "missing-tests", NewAcc(ran))
    ELSE WithPreparation(c, f, n, doc["tests"].l,
                         Get(doc, "configuration", Obj(EmptyDict)).o, ran,
                         preparation(c, f, Get(doc, "configuration", Obj(EmptyDict)).o, extra))

\* One iteration of "for shaping_file in shaping_basedir.glob(...)" on file
\* number n under check c
FileStep(c, f, n, file, ran, extra) ==
    IF ~file.parses
    THEN Step(c, n, <<Result(c, "Fail", "shaping-invalid-json", n, "Invalid JSON", <<>>)>>,
              "returned", extra, "invalid-json", NewAcc(ran))
    ELSE IF file.value.t # "dict"
    THEN Step(c, n, <<>>, "crashed", extra, "raised", NewAcc(ran))
    ELSE LoadedDocument(c, f, n, file.value.o, ran, extra)

(***************************************************************************)
(* Actions: main -> run_checks -> generate_html draining each check        *)
(***************************************************************************)

\* generate_html receives what a step of the generator yields
Yield(yielded) ==
    /\ results' = results \o yielded
    /\ all_pass' = AllPassAfter(all_pass, yielded)

BeginResults(c, shaping_basedir) ==
    IF ~Truthy(shaping_basedir)
    THEN <<Result(c, "Fail", "no-dir", 0,
                  "Shaping test directory not defined in configuration file", <<>>)>>
    ELSE IF ~is_dir(shaping_basedir.s)
    THEN <<Result(c, "Fail", "not-dir", 0,
                  "Shaping test directory not found or not a directory.", <<>>)>>
    ELSE <<>>

BeginWith(yielded) ==
    /\ Yield(yielded)
    /\ pc' = IF yielded = <<>> THEN "files" ELSE "returned"

\* The first pull of a check: the lines before the loop over the files
Begin ==
    /\ pc = "start"
    /\ BeginWith(BeginResults(Checks[check], Get(config, "test_directory", None)))
    /\ fileIdx' = 0
    /\ shaping_file_found' = FALSE
    /\ ran_a_test' = FALSE
    /\ extra_data' = None
    /\ UNCHANGED <<config, directory, font, var_coords, check, exit_status, history, call, ret>>

ProcessWith(s) ==
    /\ Yield(s.yielded)
    /\ pc' = s.next
    /\ ran_a_test' = s.ran
    /\ extra_data' = s.extra
    /\ history' = Append(history, s.hist)
    /\ exit_status' = IF s.next = "crashed" THEN 1 ELSE exit_status

\* One iteration of the loop over the files of the directory
ProcessFile ==
    /\ pc = "files"
    /\ fileIdx < Len(directory)
    /\ ProcessWith(FileStep(Checks[check], font, fileIdx + 1, directory[fileIdx + 1],
                            ran_a_test, extra_data))
    /\ fileIdx' = fileIdx + 1
    /\ shaping_file_found' = TRUE
    /\ UNCHANGED <<config, directory, font, var_coords, check, call, ret>>

\* Variant: "elif not ran_a_test", the second Skip only when the first is not
\* yielded
EndResultsEither(c, found, ran) ==
    IF ~found THEN <<Result(c, "Skip", "skip", 0, "No test files found.", <<>>)>>
    ELSE IF ~ran THEN <<Result(c, "Skip", "skip", 0, "No applicable tests ran.", <<>>)>>
    ELSE <<>>

EndResults(c, found, ran) ==
    (IF ~found THEN <<Result(c, "Skip", "skip", 0, "No test files found.", <<>>)>> ELSE <<>>)
    \o
    (IF ~ran THEN <<Result(c, "Skip", "skip", 0, "No applicable tests ran.", <<>>)>> ELSE <<>>)

\* After the loop: the two Skip results
EndOfFiles ==
    /\ pc = "files"
    /\ fileIdx = Len(directory)
    /\ Yield(EndResults(Checks[check], shaping_file_found, ran_a_test))
    /\ pc' = "returned"
    /\ UNCHANGED <<config, directory, font, var_coords, check, fileIdx, shaping_file_found, ran_a_test,
                   extra_data, exit_status, history, call, ret>>

\* generate_html: the next entry of the results dict
NextCheck ==
    /\ pc = "returned"
    /\ check < Len(Checks)
    /\ check' = check + 1
    /\ pc' = "start"
    /\ UNCHANGED <<config, directory, font, var_coords, fileIdx, shaping_file_found, ran_a_test,
                   extra_data, results, all_pass, exit_status, history, call, ret>>

\* generate_html returns (html, all_pass); main returns it; sys.exit(main() == False)
Exit ==
    /\ pc = "returned"
    /\ check = Len(Checks)
    /\ pc' = "exited"
    /\ exit_status' = IF all_pass = FALSE THEN 1 ELSE 0
    /\ UNCHANGED <<config, directory, font, var_coords, check, fileIdx, shaping_file_found, ran_a_test,
                   extra_data, results, all_pass, history, call, ret>>

(***************************************************************************)
(* The inputs: fonts, test cases, documents, directories                   *)
(***************************************************************************)

MaxDocs == 2      \* files of a directory of sample documents
MaxTests == 2     \* test cases of a generated document

Tx == <<"x">>
Ty == <<"y">>

\* Glyph names by glyph id, from 0
GlyphTable == << <<".", "n">>, <<"a">>, <<"a", "a">>, <<"b">> >>

NameA == <<"A">>
NameAB == <<"A", "B">>

\* Tx shapes to a=0+5, Ty to aa=0+5|.n=1@-1,0+7, where the detector finds
\* aa and .n colliding
FontA ==
    [name |-> NameA, glyphs |-> GlyphTable,
     shape |-> (Tx :> <<Glyph(1, 0, 0, 0, 5)>>) @@
               (Ty :> <<Glyph(2, 0, 0, 0, 5), Glyph(0, 1, -1, 0, 7)>>),
     collisions |-> (Tx :> <<>>) @@
                    (Ty :> << <<GlyphTable[3], GlyphTable[1]>> >>)]

\* Tx shapes to a=0+6|b=1+6 with a and b colliding, Ty to aa=0+5
FontAB ==
    [name |-> NameAB, glyphs |-> GlyphTable,
     shape |-> (Tx :> <<Glyph(1, 0, 0, 0, 6), Glyph(3, 1, 0, 0, 6)>>) @@
               (Ty :> <<Glyph(2, 0, 0, 0, 5)>>),
     collisions |-> (Tx :> << <<GlyphTable[2], GlyphTable[4]>> >>) @@
                    (Ty :> <<>>)]

Fonts == {FontA, FontAB}

\* Test cases, as the JSON objects of a document's "tests" list
TestFull == [input |-> Str(Tx), expectation |-> Str(<<"a", "=", "0", "+", "5">>)]
TestNames == [input |-> Str(Ty), expectation |-> Str(<<"a", "a">>)]
TestUnparseable == [input |-> Str(Tx), expectation |-> Str(<<"a", "=">>)]
TestNoInput == [expectation |-> Str(<<"a">>)]
TestPlain == [input |-> Str(Ty)]
TestExclude == [input |-> Str(Tx), expectation |-> Str(<<"b">>),
                exclude |-> List(<<Str(NameA)>>)]
TestOnly == [input |-> Str(Tx), expectation |-> Str(<<"b">>),
             only |-> List(<<Str(NameAB)>>)]
\* Without input: one that exclude would remove for font A, one with nothing
\* a filter looks for
TestNoInputExcluded == [expectation |-> Str(<<"a">>), exclude |-> List(<<Str(NameA)>>)]
TestNote == [note |-> Str(<<"n">>)]
TestOnlyNone == [input |-> Str(Tx), expectation |-> Str(<<"a">>), only |-> List(<<>>)]
TestCollides == [input |-> Str(Ty), collidoscope |-> Obj([marks |-> TRUE]),
                 allowedcollisions |-> List(<<Str(<<"a", "a", "/", ".", "n">>)>>)]

TestOther == [input |-> Str(Ty), expectation |-> Str(<<"b">>)]

\* Per-font expectations: an entry for A and a default, an entry for A alone,
\* a default alone, an entry for another font and a default
TestMap == [input |-> Str(Tx),
            expectation |-> Obj((NameA :> Str(<<"a">>)) @@ (DefaultKey :> Str(<<"b">>)))]
TestMapNoDefault == [input |-> Str(Tx), expectation |-> Obj(NameA :> Str(<<"a">>))]
TestMapDefaultOnly == [input |-> Str(Tx), expectation |-> Obj(DefaultKey :> Str(<<"a">>))]
TestMapOther == [input |-> Str(Ty),
                 expectation |-> Obj((NameAB :> Str(<<"b">>)) @@ (DefaultKey :> Str(<<"a", "a">>)))]

\* An input that is a recipe for the document's ingredients
Recipe == <<"r">>
TestPattern == [input |-> Str(Recipe), input_type |-> Str(PatternType)]

TestPool == {TestFull, TestNames, TestUnparseable, TestNoInput, TestPlain,
             TestExclude, TestOnly, TestCollides, TestOther,
             TestMap, TestMapNoDefault, TestMapDefaultOnly, TestMapOther, TestPattern,
             TestOnlyNone, TestNoInputExcluded, TestNote}

SmallTestPool == {TestFull, TestNames, TestNoInput, TestPlain}

\* The "configuration" part of a document: absent, or one of these
NoConfiguration == EmptyDict
ForbiddenConfiguration ==
    [configuration |-> Obj([forbidden_glyphs |-> List(<<Str(<<".", "n">>)>>)])]
CollidesConfiguration ==
    [configuration |-> Obj([collidoscope |-> Obj([marks |-> TRUE]),
                            defaults |-> Obj([allowedcollisions |->
                                                List(<<Str(<<"a", "/", "b">>)>>)])])]

PatternConfiguration ==
    [configuration |-> Obj([forbidden_glyphs |-> List(<<Str(<<".", "n">>)>>),
                            ingredients |-> Obj(Recipe :> List(<<Str(Tx), Str(Ty)>>))])]

Configurations ==
    {NoConfiguration, ForbiddenConfiguration, CollidesConfiguration, PatternConfiguration}

\* A file json.loads parses to value, and one it cannot parse
File(value) == [parses |-> TRUE, value |-> value]
InvalidFile == [parses |-> FALSE, value |-> Null]

Document(configuration, tests) ==
    File(Obj(configuration @@ [tests |-> List([i \in 1..Len(tests) |-> Obj(tests[i])])]))

SeqUpTo(S, n) == UNION {[1..k -> S] : k \in 0..n}

\* Files for directories of several documents: the malformed ones, and
\* documents of at most one test
SampleFiles ==
    {InvalidFile, File(Obj(ForbiddenConfiguration)), File(List(<<>>))}
    \cup {Document(c, t) : c \in {NoConfiguration, ForbiddenConfiguration},
                           t \in SeqUpTo(SmallTestPool, 1)}

SampleDirectories == SeqUpTo(SampleFiles, MaxDocs)

\* Directories of one document of up to MaxTests test cases
GeneratedDirectories ==
    {<<Document(c, t)>> : c \in Configurations, t \in SeqUpTo(TestPool, MaxTests)}

\* The yaml configuration: no test directory, one that does not exist, one
\* that does
NoDirConfig == EmptyDict
MissingDirConfig == [test_directory |-> Str(<<"m">>)]
DirConfig == [test_directory |-> Str(TestsDir)]

NoExit == -1

InitLocals ==
    /\ var_coords = <<>>
    /\ check = 1
    /\ pc = "start"
    /\ fileIdx = 0
    /\ shaping_file_found = FALSE
    /\ ran_a_test = FALSE
    /\ extra_data = None
    /\ results = <<>>
    /\ all_pass = TRUE
    /\ exit_status = NoExit
    /\ history = <<>>
    /\ call = None
    /\ ret = None

Init ==
    /\ font \in Fonts
    /\ \/ config \in {NoDirConfig, MissingDirConfig} /\ directory = <<>>
       \/ config = DirConfig /\ directory \in SampleDirectories \cup GeneratedDirectories
    /\ InitLocals

Next == Begin \/ ProcessFile \/ EndOfFiles \/ NextCheck \/ Exit

Spec == Init /\ [][Next]_vars

(***************************************************************************)
(* Properties of a whole run                                               *)
(***************************************************************************)

\* The results one check yielded, and the files it went through
ResultsOf(c) == SelectSeq(results, LAMBDA r : r.check = c)

Defects == {"invalid-json", "missing-tests", "missing-input"}

YieldsPass(h) == \E k \in 1..Len(h.yielded) : h.yielded[k].status = "Pass"

TestsOf(n) == directory[n].value.o["tests"].l
ConfigurationOf(n) == Get(directory[n].value.o, "configuration", Obj(EmptyDict)).o

\* C1: a check yields Pass for a document only if at least one test case of
\* that same document was executed and none of them recorded a failure.
C1_PassOnlyAfterOwnCase ==
    \A i \in 1..Len(history) :
        YieldsPass(history[i]) => history[i].executed # <<>> /\ history[i].failed = <<>>

EmptyDirectoryDone == config = DirConfig /\ directory = <<>> /\ pc = "returned"

\* C3, as stated: a directory without documents gives exactly one result, the
\* Skip "No test files found.".
C3_OneSkip ==
    EmptyDirectoryDone
    => /\ Len(ResultsOf(Checks[check])) = 1
       /\ ResultsOf(Checks[check])[1].status = "Skip"
       /\ ResultsOf(Checks[check])[1].header = "No test files found."

\* C3: a directory without documents gives exactly two results, the Skip
\* "No test files found." and then the Skip "No applicable tests ran.".
C3_TwoSkips ==
    EmptyDirectoryDone
    => /\ Len(ResultsOf(Checks[check])) = 2
       /\ \A k \in 1..2 : ResultsOf(Checks[check])[k].status = "Skip"
       /\ ResultsOf(Checks[check])[1].header = "No test files found."
       /\ ResultsOf(Checks[check])[2].header = "No applicable tests ran."

C3_EmptyDirectory == EmptyDirectoryDone /\ check = 2

\* A well-formed document no test case of which check c executes on font f:
\* each is rejected by the filter, or has an input and is removed by
\* exclude/only
NothingToRun(c, f, file) ==
    /\ file.parses
    /\ file.value.t = "dict"
    /\ "tests" \in DOMAIN file.value.o
    /\ \A k \in 1..Len(file.value.o["tests"].l) :
           \/ ~test_filter(c, file.value.o["tests"].l[k].o,
                           Get(file.value.o, "configuration", Obj(EmptyDict)).o)
           \/ /\ "input" \in DOMAIN file.value.o["tests"].l[k].o
              /\ \/ Excluded(f, file.value.o["tests"].l[k].o)
                 \/ NotOnly(f, file.value.o["tests"].l[k].o)

NoCaseToRun ==
    /\ config = DirConfig
    /\ directory # <<>>
    /\ pc = "returned"
    /\ \A n \in 1..Len(directory) : NothingToRun(Checks[check], font, directory[n])

\* C4: when the directory has documents and the check executes no test case
\* of any of them, the check yields exactly one result, the Skip
\* "No applicable tests ran.".
C4_OneSkipWhenNothingRan ==
    NoCaseToRun
    => /\ Len(ResultsOf(Checks[check])) = 1
       /\ ResultsOf(Checks[check])[1].status = "Skip"
       /\ ResultsOf(Checks[check])[1].header = "No applicable tests ran."

\* Nothing ran although a document has a test case that the filter accepted
\* and exclude/only removed
C4_CasesButNoneRan ==
    /\ NoCaseToRun
    /\ \E n \in 1..Len(directory) : \E k \in 1..Len(TestsOf(n)) :
           test_filter(Checks[check], TestsOf(n)[k].o, ConfigurationOf(n))

\* C5: all_pass is true exactly when no yielded result is a Fail (Pass and
\* Skip leave it alone), and the exit status is 1 exactly when all_pass is
\* false and 0 otherwise.
C5_ExitStatus ==
    /\ pc \in {"start", "files", "returned", "exited"}
       => (all_pass <=> \A k \in 1..Len(results) : results[k].status # "Fail")
    /\ pc = "exited"
       => /\ exit_status \in {0, 1}
          /\ exit_status = 1 <=> ~all_pass

\* Exit with status 0 after a Pass and a Skip
C5_PassAndSkipExitZero ==
    /\ pc = "exited"
    /\ exit_status = 0
    /\ \E k \in 1..Len(results) : results[k].status = "Pass"
    /\ \E k \in 1..Len(results) : results[k].status = "Skip"

\* The executed test cases whose serialization differs from the expectation
Differs(f, test, configuration) ==
    _serialize_buffer(f, _shape(f, test["input"].s, get_shaping_parameters(test, configuration)),
                      ~HasChar(test["expectation"].s, "+"))
    # test["expectation"].s

Differing(h) ==
    SelectSeq(h.executed,
              LAMBDA k : Differs(font, TestsOf(h.file)[k].o, ConfigurationOf(h.file)))

\* Check c hands the test to its executor for font f: the filter accepts it,
\* it has an input, exclude and only do not remove it
RunsCase(c, f, test, configuration) ==
    /\ test_filter(c, test, configuration)
    /\ "input" \in DOMAIN test
    /\ ~Excluded(f, test)
    /\ ~NotOnly(f, test)

LiteralExpectations(h) ==
    /\ h.check = "regression"
    /\ h.outcome \notin Defects
    /\ h.executed # <<>>
    /\ \A k \in 1..Len(TestsOf(h.file)) :
           RunsCase(h.check, font, TestsOf(h.file)[k].o, ConfigurationOf(h.file))
           => TestsOf(h.file)[k].o["expectation"].t = "str"

RegressionVerdict(h, differing) ==
    /\ Len(h.yielded) = 1
    /\ IF differing = <<>>
       THEN h.yielded[1].status = "Pass"
       ELSE /\ h.yielded[1].status = "Fail"
            /\ h.yielded[1].code = "shaping-regression"
            /\ Len(h.yielded[1].items) = Len(differing)
            /\ \A k \in 1..Len(differing) :
                   /\ h.yielded[1].items[k].text = TestsOf(h.file)[differing[k]].o["input"].s
                   /\ h.yielded[1].items[k].note = Get(TestsOf(h.file)[differing[k]].o, "note", None)

\* C7: for a document whose executed cases all have a string expectation, the
\* regression check yields Pass when every serialization equals its
\* expectation, and otherwise one Fail "shaping-regression" whose items are
\* the differing cases, one each, in the order of the cases.
C7_RegressionVerdict ==
    \A i \in 1..Len(history) :
        LiteralExpectations(history[i]) => RegressionVerdict(history[i], Differing(history[i]))

\* The same, for the documents whose differing expectations with an "=" are
\* all in the form _buffer_from_string reads
Readable(f, h, differing) ==
    \A k \in 1..Len(differing) :
        HasChar(TestsOf(h.file)[differing[k]].o["expectation"].s, "=")
        => _buffer_from_string(f, TestsOf(h.file)[differing[k]].o["expectation"].s).raised = ""

RegressionVerdictWhenReadable ==
    \A i \in 1..Len(history) :
        LiteralExpectations(history[i]) /\ Readable(font, history[i], Differing(history[i]))
        => RegressionVerdict(history[i], Differing(history[i]))

(***************************************************************************)
(* Functions applied on their own: the arguments are drawn in the initial  *)
(* state, one action applies the function                                  *)
(***************************************************************************)

IdleRunner ==
    /\ config = NoDirConfig
    /\ directory = <<>>
    /\ check = 1
    /\ fileIdx = 0
    /\ shaping_file_found = FALSE
    /\ ran_a_test = FALSE
    /\ extra_data = None
    /\ results = <<>>
    /\ all_pass = TRUE
    /\ exit_status = NoExit
    /\ history = <<>>

Idle == IdleRunner /\ var_coords = <<>>

Return(value) ==
    /\ pc = "call"
    /\ pc' = "done"
    /\ ret' = value
    /\ UNCHANGED <<config, directory, font, var_coords, check, fileIdx, shaping_file_found, ran_a_test,
                   extra_data, results, all_pass, exit_status, history, call>>

\* ---- get_from_test_with_default ----

Liga == Obj([liga |-> Str(<<"1">>)])
Kern == Obj([kern |-> Str(<<"0">>)])
Latn == Str(<<"l">>)
Arab == Str(<<"a">>)

ResolveTests ==
    {EmptyDict, [features |-> Liga], [script |-> Latn], [features |-> Kern, script |-> Arab],
     [features |-> Null], [input |-> Str(Tx)]}

ResolveConfigurations ==
    {EmptyDict,
     [forbidden_glyphs |-> List(<<>>)],
     [defaults |-> Obj(EmptyDict)],
     [defaults |-> Obj([features |-> Kern])],
     [defaults |-> Obj([script |-> Arab, features |-> Liga])],
     [defaults |-> Obj([script |-> Latn]), features |-> Liga]}

ResolveKeys == {"features", "script", "variations"}

ResolveDefaults == {None, Str(<<"s">>), Kern}

InitResolve ==
    /\ Idle
    /\ font = FontA
    /\ pc = "call"
    /\ call \in [test : ResolveTests, configuration : ResolveConfigurations,
                 key : ResolveKeys, default : ResolveDefaults]
    /\ ret = None

Resolve == Return(get_from_test_with_default(call.test, call.configuration, call.key, call.default))

SpecResolve == InitResolve /\ [][Resolve]_vars

\* ---- run_forbidden_glyph_test ----

MaxGlyphs == 3        \* glyphs of a shaped text
MaxForbidden == 2     \* entries of a forbidden_glyphs list

\* Glyph names by glyph id: .n, a, aa, an
UnitGlyphTable == << <<".", "n">>, <<"a">>, <<"a", "a">>, <<"a", "n">> >>

\* Forbidden entries: glyph names, a name of no glyph, a lone ".", and entries
\* that bring their own \| anchors
ForbiddenEntries ==
    {<<"a">>, <<"n">>, <<".", "n">>, <<"a", "a">>, <<".">>,
     <<Backslash, "|", "a">>, <<"a", Backslash, "|">>, <<Backslash, "|", "a", "a", Backslash, "|">>}

UnitFont(buffer, collisions) ==
    [name |-> NameA, glyphs |-> UnitGlyphTable,
     shape |-> (Tx :> buffer), collisions |-> (Tx :> collisions)]

BufferOf(gids) == [i \in 1..Len(gids) |-> Glyph(gids[i], i - 1, 0, 0, 5)]

InitForbidden ==
    /\ Idle
    /\ pc = "call"
    /\ \E gids \in SeqUpTo(0..(Len(UnitGlyphTable) - 1), MaxGlyphs) :
           font = UnitFont(BufferOf(gids), <<>>)
    /\ \E entries \in SeqUpTo(ForbiddenEntries, MaxForbidden) :
           /\ entries # <<>>
           /\ call = [test |-> [input |-> Str(Tx)],
                      configuration |->
                          [forbidden_glyphs |-> List([i \in 1..Len(entries) |-> Str(entries[i])])]]
    /\ ret = None

CallForbidden ==
    Return(run_forbidden_glyph_test(font, call.test, call.configuration, <<>>, None).failed)

SpecForbidden == InitForbidden /\ [][CallForbidden]_vars

\* ---- run_collides_glyph_test ----

MaxCollisions == 2    \* pairs the detector returns for a text

CollidingNames == {<<"a">>, <<"b">>}

BumpAB == <<"a", "/", "b">>
BumpBA == <<"b", "/", "a">>
BumpAA == <<"a", "/", "a">>

AllowedLists ==
    {List(<<>>), List(<<Str(BumpAB)>>), List(<<Str(BumpBA), Str(BumpAB)>>),
     List(<<Str(BumpAA), Str(<<"a", "/">>)>>)}

\* Where the allowed collisions are given: nowhere, in the test, in the
\* document's defaults, in both
InitCollides ==
    /\ Idle
    /\ pc = "call"
    /\ \E collisions \in SeqUpTo(CollidingNames \X CollidingNames, MaxCollisions) :
           font = UnitFont(BufferOf(<<1>>), collisions)
    /\ \E own \in {Null} \cup AllowedLists, def \in {Null} \cup AllowedLists :
           call = [test |-> [input |-> Str(Tx)] @@
                            (IF own = Null THEN EmptyDict ELSE [allowedcollisions |-> own]),
                   configuration |->
                       [collidoscope |-> Obj([marks |-> TRUE])] @@
                       (IF def = Null THEN EmptyDict
                        ELSE [defaults |-> Obj([allowedcollisions |-> def])])]
    /\ ret = None

CallCollides ==
    Return(run_collides_glyph_test(font, call.test, call.configuration, <<>>,
                                   setup_glyph_collides(font, call.configuration)).failed)

SpecCollides == InitCollides /\ [][CallCollides]_vars

(***************************************************************************)
(* Properties of the functions                                             *)
(***************************************************************************)

\* C6: the value is the test's own when the test has the key, else the one
\* under the configuration's "defaults" when that has the key, else the
\* supplied default; a mapping is returned whole, never merged with the
\* other level's; the test and the configuration are left as they were.
C6_Precedence ==
    /\ [](pc = "done"
          => ret = IF call.key \in DOMAIN call.test
                   THEN call.test[call.key]
                   ELSE IF /\ "defaults" \in DOMAIN call.configuration
                           /\ call.key \in DOMAIN call.configuration["defaults"].o
                   THEN call.configuration["defaults"].o[call.key]
                   ELSE call.default)
    /\ [][call' = call]_vars

\* Test and defaults both have a mapping under the key, and the test's is
\* returned
C6_BothLevels ==
    /\ pc = "done"
    /\ call.key \in DOMAIN call.test
    /\ "defaults" \in DOMAIN call.configuration
    /\ call.key \in DOMAIN call.configuration["defaults"].o
    /\ call.test[call.key].t = "dict"
    /\ call.configuration["defaults"].o[call.key].t = "dict"
    /\ call.configuration["defaults"].o[call.key] # call.test[call.key]
    /\ ret = call.test[call.key]

\* The glyph names of the shaped text, the entries of the forbidden list, and
\* whether a failure names an entry
Tokens == [i \in 1..Len(font.shape[Tx]) |-> glyph_to_string(font, font.shape[Tx][i].codepoint)]

Entries == [i \in 1..Len(call.configuration["forbidden_glyphs"].l) |->
                call.configuration["forbidden_glyphs"].l[i].s]

Recorded(e) == \E k \in 1..Len(ret) : ret[k].forbidden = e

IsToken(e) == \E i \in 1..Len(Tokens) : Tokens[i] = e

\* The characters that mean something in a regular expression
RegexSpecial == {".", Backslash, "|", "^", "$", "*", "+", "?", "(", ")", "[", "]", "{", "}"}

\* An entry without such characters
PlainName(e) == e # <<>> /\ \A i \in 1..Len(e) : e[i] \notin RegexSpecial

\* C8: for an entry that is a plain glyph name, a failure is recorded when a
\* glyph of the output has exactly that name, at any position, and none is
\* when the name occurs only inside longer glyph names.
C8_PlainNameExact ==
    pc = "done"
    => \A i \in 1..Len(Entries) :
           PlainName(Entries[i]) => (Recorded(Entries[i]) <=> IsToken(Entries[i]))

\* Three glyphs; the plain entry "a" names the middle one and is recorded, the
\* plain entry "n" is only part of the names around it and is not
C8_MiddleAndSubstring ==
    /\ pc = "done"
    /\ Tokens = << <<"a", "n">>, <<"a">>, <<".", "n">> >>
    /\ Entries = << <<"a">>, <<"n">> >>
    /\ Recorded(<<"a">>)
    /\ ~Recorded(<<"n">>)

\* C9, as stated: an entry is matched against whole glyph names only, so a
\* failure is recorded for an entry exactly when a glyph of the output has
\* that very name.
C9_WholeNameOnly ==
    pc = "done"
    => \A i \in 1..Len(Entries) : Recorded(Entries[i]) <=> IsToken(Entries[i])

\* An entry in which "." is the only such character
NameLike(e) == e # <<>> /\ \A i \in 1..Len(e) : e[i] \notin RegexSpecial \ {"."}

\* A glyph name the entry matches with each "." of the entry standing for any
\* one character
DotMatches(e, name) ==
    /\ Len(name) = Len(e)
    /\ \A j \in 1..Len(e) : e[j] = "." \/ e[j] = name[j]

\* The entry without the \| it starts with and the \| it ends with
Unanchored(e) ==
    SubSeq(e, IF StartsWith(e, <<Backslash, "|">>) THEN 3 ELSE 1,
              IF EndsWith(e, <<Backslash, "|">>) THEN Len(e) - 2 ELSE Len(e))

\* C9: an entry is a regular expression searched for between two "|", which
\* the entry may bring itself as \|: an entry that is a plain name between
\* such anchors, or without them, is recorded exactly when a glyph has that
\* very name, and an entry with "." is recorded whenever a glyph name matches
\* it with "." standing for any character.
C9_DotIsWildcard ==
    pc = "done"
    => \A i \in 1..Len(Entries) :
           /\ PlainName(Unanchored(Entries[i]))
              => (Recorded(Entries[i]) <=> IsToken(Unanchored(Entries[i])))
           /\ (/\ NameLike(Entries[i])
               /\ \E k \in 1..Len(Tokens) : DotMatches(Entries[i], Tokens[k]))
              => Recorded(Entries[i])

\* The entry .n is recorded for an output that has the glyph an and no glyph
\* .n
C9_DotMatchesOtherName ==
    /\ pc = "done"
    /\ IsToken(<<"a", "n">>)
    /\ ~IsToken(<<".", "n">>)
    /\ \E i \in 1..Len(Entries) : Entries[i] = <<".", "n">>
    /\ Recorded(<<".", "n">>)

\* The allowed collisions the test resolves to, and the bumps of the detector
AllowedCollisions ==
    get_from_test_with_default(call.test, call.configuration, "allowedcollisions", List(<<>>))

Bumps == [i \in 1..Len(font.collisions[Tx]) |-> Bump(font.collisions[Tx][i])]

\* C10: no bump of a recorded failure is in the resolved allowed list, and a
\* text all of whose collisions are allowed records no failure.
C10_AllowedNeverRecorded ==
    pc = "done"
    => /\ \A k \in 1..Len(ret) : \A b \in 1..Len(ret[k].bumps) :
              ~PyIn(ret[k].bumps[b], AllowedCollisions)
       /\ (\A i \in 1..Len(Bumps) : PyIn(Bumps[i], AllowedCollisions)) => ret = <<>>

\* Two collisions, the first allowed by the document's defaults, the second
\* not: one failure, with the second bump only
C10_OneAllowedOneNot ==
    /\ pc = "done"
    /\ Len(Bumps) = 2
    /\ "allowedcollisions" \notin DOMAIN call.test
    /\ PyIn(Bumps[1], AllowedCollisions)
    /\ ~PyIn(Bumps[2], AllowedCollisions)
    /\ Len(ret) = 1
    /\ ret[1].bumps = <<Bumps[2]>>

(***************************************************************************)
(* _serialize_buffer and _buffer_from_string, one after the other          *)
(***************************************************************************)

MaxBuffer == 2        \* glyphs of a shaped result that is serialized and parsed

NameZ == <<"z">>

\* Glyphs of a shaped result: zero, positive and negative offsets, zero,
\* positive and negative advances, clusters of one and two digits, and glyphs
\* that carry a name of their own which the font does not have
RoundTripGlyphs ==
    {Glyph(1, 0, 0, 0, 5), Glyph(0, 1, -1, 0, 7), Glyph(2, 10, 0, 2, 0),
     Glyph(3, 2, -12, -3, -5), Glyph(1, 3, 4, 0, 10), Glyph(2, 0, 0, 0, -1),
     FakeGlyph(0, 0, TRUE, NameZ, 0, 0, 6), FakeGlyph(0, 1, TRUE, NameZ, 0, -2, 0)}

InitRoundTrip ==
    /\ Idle
    /\ font = FontA
    /\ pc = "call"
    /\ call \in SeqUpTo(RoundTripGlyphs, MaxBuffer)
    /\ ret = None

\* The string, what the parser makes of it, and that serialized again
Reserialized(f, first, parsed) ==
    [first |-> first, raised |-> parsed.raised,
     second |-> _serialize_buffer(f, parsed.buffer, FALSE)]

RoundTripOf(f, first) == Reserialized(f, first, _buffer_from_string(f, first))

RoundTrip == Return(RoundTripOf(font, _serialize_buffer(font, call, FALSE)))

SpecRoundTrip == InitRoundTrip /\ [][RoundTrip]_vars

\* C11: the parser accepts what the serializer writes for any shaped result,
\* the empty one included, and the parsed buffer serializes to the same
\* string.
C11_RoundTrip ==
    pc = "done" => ret.raised = "" /\ ret.second = ret.first

\* The same for the shaped results of at least one glyph
RoundTripNotEmpty ==
    (pc = "done" /\ call # <<>>) => ret.raised = "" /\ ret.second = ret.first

(***************************************************************************)
(* _shape and the font's variation coordinates, in both programs           *)
(*                                                                         *)
(* The font has one axis, wght; its coordinates are <<value>>, and <<>>    *)
(* for a font without axes.  hb.shape returns or raises (raises = TRUE).   *)
(***************************************************************************)

MaxShapes == 3        \* calls of _shape in a row

\* font.set_variations(variations): the named axes, the default for the others
set_variations(coords, variations) ==
    IF coords = <<>> THEN <<>> ELSE <<Get(variations.o, "wght", Num(400)).n>>

\* _SetVariations.__enter__: coordinates and saved_variations afterwards
SetVariations_enter(coords, variations) ==
    IF Truthy(variations)
    THEN [coords |-> set_variations(coords, variations), saved_variations |-> List(coords)]
    ELSE [coords |-> coords, saved_variations |-> None]

\* _SetVariations.__exit__, which runs whether the body returned or raised
SetVariations_exit(entered) ==
    IF entered.saved_variations # None THEN entered.saved_variations.l ELSE entered.coords

\* _shape of check-shaping.py: "with _SetVariations(...): hb.shape(...)"
check_shape_coords(coords, parameters, raises) ==
    [coords |-> SetVariations_exit(SetVariations_enter(coords, Get(parameters, "variations", None))),
     raised |-> raises]

\* _shape of update-shaping-tests.py: the coordinates are set back by the
\* statement after hb.shape, which an exception of hb.shape skips
update_shape_coords(coords, parameters, raises) ==
    [coords |-> IF raises
                THEN SetVariations_enter(coords, Get(parameters, "variations", None)).coords
                ELSE SetVariations_exit(SetVariations_enter(coords,
                                                            Get(parameters, "variations", None))),
     raised |-> raises]

ShapeParameters ==
    {EmptyDict, [variations |-> Null], [variations |-> Obj(EmptyDict)],
     [variations |-> Obj([wght |-> Num(700)])], [variations |-> Obj([wght |-> Num(400)])],
     [features |-> Liga, variations |-> Obj([wght |-> Num(900)])]}

\* call: the program, the coordinates before the first call and the number
\* of calls so far; ret: the last call
InitShape ==
    /\ IdleRunner
    /\ font = FontA
    /\ var_coords \in {<<>>, <<400>>, <<500>>}
    /\ pc = "call"
    /\ \E tool \in {"check-shaping", "update-shaping-tests"} :
           call = [tool |-> tool, initial |-> var_coords, n |-> 0]
    /\ ret = None

Shaped(parameters, s) ==
    /\ var_coords' = s.coords
    /\ pc' = IF s.raised THEN "crashed" ELSE "call"
    /\ call' = [call EXCEPT !.n = @ + 1]
    /\ ret' = [parameters |-> parameters, raised |-> s.raised, before |-> var_coords]
    /\ UNCHANGED <<config, directory, font, check, fileIdx, shaping_file_found, ran_a_test,
                   extra_data, results, all_pass, exit_status, history>>

ShapeInCheck ==
    /\ pc = "call"
    /\ call.tool = "check-shaping"
    /\ call.n < MaxShapes
    /\ \E parameters \in ShapeParameters, raises \in BOOLEAN :
           Shaped(parameters, check_shape_coords(var_coords, parameters, raises))

ShapeInUpdate ==
    /\ pc = "call"
    /\ call.tool = "update-shaping-tests"
    /\ call.n < MaxShapes
    /\ \E parameters \in ShapeParameters, raises \in BOOLEAN :
           Shaped(parameters, update_shape_coords(var_coords, parameters, raises))

NextShape == ShapeInCheck \/ ShapeInUpdate

SpecShape == InitShape /\ [][NextShape]_vars

\* C12: every call of _shape, in either program, returning or raising,
\* leaves the font's variation coordinates as they were before the call, so
\* after any sequence of calls the font has its initial coordinates.
C12_VariationsRestored ==
    /\ ret # None => var_coords = ret.before
    /\ var_coords = call.initial

\* The same for the _shape of check-shaping.py alone
CheckShapingRestores ==
    call.tool = "check-shaping" => (ret # None => var_coords = ret.before) /\ var_coords = call.initial

(***************************************************************************)
(* Properties of a whole run: defects, exclude/only, the order of the      *)
(* steps, the accumulator                                                  *)
(***************************************************************************)

\* The test is one whose expectation is a per-font mapping without "default"
MapWithoutDefault(test) ==
    /\ "expectation" \in DOMAIN test
    /\ test["expectation"].t = "dict"
    /\ DefaultKey \notin DOMAIN test["expectation"].o

\* The test's input is a recipe and the document has no ingredients
PatternWithoutIngredients(test, configuration) ==
    /\ get_from_test_with_default(test, configuration, "input_type", Str(StringType))
       = Str(PatternType)
    /\ "ingredients" \notin DOMAIN configuration

\* A parsed document with a defect in a case that check c comes to
DefectInCases(c, f, tests, configuration) ==
    \E k \in 1..Len(tests) :
        /\ test_filter(c, tests[k].o, configuration)
        /\ \/ "input" \notin DOMAIN tests[k].o
           \/ /\ RunsCase(c, f, tests[k].o, configuration)
              /\ \/ c = "regression" /\ MapWithoutDefault(tests[k].o)
                 \/ c # "regression" /\ PatternWithoutIngredients(tests[k].o, configuration)

\* The file has one of the defects of structure
StructuralDefect(c, f, file) ==
    \/ ~file.parses
    \/ file.value.t # "dict"
    \/ "tests" \notin DOMAIN file.value.o
    \/ DefectInCases(c, f, file.value.o["tests"].l,
                     Get(file.value.o, "configuration", Obj(EmptyDict)).o)

YieldsFail(h) == \E k \in 1..Len(h.yielded) : h.yielded[k].status = "Fail"

\* C13: a document with a defect of structure (unparseable, no "tests", not
\* an object, a case without "input", a per-font expectation without
\* "default", a pattern input without "ingredients") gets a Fail from the
\* check, and no exception leaves the check.
C13_DefectsAreFails ==
    \A i \in 1..Len(history) :
        StructuralDefect(history[i].check, font, directory[history[i].file])
        => history[i].outcome # "raised" /\ YieldsFail(history[i])

\* The same for the three defects the runner looks for itself
RunnerDefectsAreFails ==
    \A i \in 1..Len(history) :
        (\/ ~directory[history[i].file].parses
         \/ /\ directory[history[i].file].value.t = "dict"
            /\ \/ "tests" \notin DOMAIN directory[history[i].file].value.o
               \/ \E k \in 1..Len(TestsOf(history[i].file)) :
                      /\ \A j \in 1..k : ~MapWithoutDefault(TestsOf(history[i].file)[j].o)
                      /\ \A j \in 1..k : ~PatternWithoutIngredients(TestsOf(history[i].file)[j].o,
                                                                     ConfigurationOf(history[i].file))
                      /\ test_filter(history[i].check, TestsOf(history[i].file)[k].o,
                                     ConfigurationOf(history[i].file))
                      /\ "input" \notin DOMAIN TestsOf(history[i].file)[k].o)
        => history[i].outcome \in Defects /\ YieldsFail(history[i])

\* The font's file name is an element of the list under key, if there is one
Lists(f, test, key) ==
    /\ key \in DOMAIN test
    /\ \E j \in 1..Len(test[key].l) : test[key].l[j] = Str(f.name)

\* What C14 says decides whether a filter-accepted case with an input runs
NotRemoved(f, test) ==
    /\ ~Lists(f, test, "exclude")
    /\ "only" \notin DOMAIN test \/ Lists(f, test, "only")

\* C14: a filter-accepted case with an input is executed exactly when the
\* font's name is not in its "exclude" list and it has no "only" key or the
\* font's name is in its "only" list; with an "only" list that does not hold
\* the font, the empty list included, it is not executed.
C14_ExcludeOnly ==
    \A i \in 1..Len(history) :
        history[i].outcome = "completed"
        => \A k \in 1..Len(TestsOf(history[i].file)) :
               (/\ test_filter(history[i].check, TestsOf(history[i].file)[k].o,
                               ConfigurationOf(history[i].file))
                /\ "input" \in DOMAIN TestsOf(history[i].file)[k].o)
               => ((\E e \in 1..Len(history[i].executed) : history[i].executed[e] = k)
                   <=> NotRemoved(font, TestsOf(history[i].file)[k].o))

\* The same for the cases whose "only" list, if they have one, is not empty
ExcludeOnlyNotEmpty ==
    \A i \in 1..Len(history) :
        history[i].outcome = "completed"
        => \A k \in 1..Len(TestsOf(history[i].file)) :
               (/\ test_filter(history[i].check, TestsOf(history[i].file)[k].o,
                               ConfigurationOf(history[i].file))
                /\ "input" \in DOMAIN TestsOf(history[i].file)[k].o
                /\ Get(TestsOf(history[i].file)[k].o, "only", None) # List(<<>>))
               => ((\E e \in 1..Len(history[i].executed) : history[i].executed[e] = k)
                   <=> NotRemoved(font, TestsOf(history[i].file)[k].o))

\* A document without collision settings of its own, in which a case that
\* runs has some
CaseDeclaresCollisions(f, file) ==
    /\ ~StructuralDefect("collides", f, file)
    /\ "collidoscope" \notin DOMAIN Get(file.value.o, "configuration", Obj(EmptyDict)).o
    /\ \E k \in 1..Len(file.value.o["tests"].l) :
           /\ "collidoscope" \in DOMAIN file.value.o["tests"].l[k].o
           /\ RunsCase("collides", f, file.value.o["tests"].l[k].o,
                       Get(file.value.o, "configuration", Obj(EmptyDict)).o)

\* C15: in the collision check, when only a case and not the document's
\* configuration declares collision settings, the case is executed with a
\* default detector and the document ends in a Pass or a "shaping-collides"
\* Fail, not in an error.
C15_DefaultDetector ==
    \A i \in 1..Len(history) :
        (history[i].check = "collides" /\ CaseDeclaresCollisions(font, directory[history[i].file]))
        => /\ history[i].outcome = "completed"
           /\ Len(history[i].yielded) = 1
           /\ \/ history[i].yielded[1].status = "Pass"
              \/ history[i].yielded[1].code = "shaping-collides"

(***************************************************************************)
(* collides_glyph_test_results on its own                                  *)
(***************************************************************************)

MaxFailures == 2      \* failures in the accumulator of a document

\* The remaining pairs of a failure: one pair, two pairs in either order
BumpLists == {<<BumpAB>>, <<BumpBA>>, <<BumpAB, BumpBA>>, <<BumpBA, BumpAB>>}

CollisionFailures ==
    {[shaping_text |-> text, bumps |-> bumps, output_buf |-> FontA.shape[Tx]] :
         text \in {Tx, Ty}, bumps \in BumpLists}

InitCollidesReport ==
    /\ Idle
    /\ font = FontA
    /\ pc = "call"
    /\ call \in SeqUpTo(CollisionFailures, MaxFailures)
    /\ ret = None

CallCollidesReport == Return(collides_glyph_test_results(font, EmptyDict, 1, call))

SpecCollidesReport == InitCollidesReport /\ [][CallCollidesReport]_vars

PairSet(bumps) == {bumps[j] : j \in 1..Len(bumps)}

\* C16: the Fail of the collision check has as many items as there are
\* distinct sets of remaining pairs among the recorded failures, in whatever
\* order the pairs of a failure are.
C16_OneItemPerPairSet ==
    (pc = "done" /\ call # <<>>)
    => Len(ret.items) = Cardinality({PairSet(call[i].bumps) : i \in 1..Len(call)})

\* As many items as there are distinct lists of remaining pairs
OneItemPerPairList ==
    (pc = "done" /\ call # <<>>)
    => Len(ret.items) = Cardinality({call[i].bumps : i \in 1..Len(call)})

(***************************************************************************)
(* run_shaping_regression on its own, with per-font expectations           *)
(***************************************************************************)

\* The entry a per-font expectation may have under a key: none, or a string
Absent == [t |-> "absent"]

ExpectationMap(own, other, default) ==
    (IF own = Absent THEN <<>> ELSE NameA :> own)
    @@ (IF other = Absent THEN <<>> ELSE NameAB :> other)
    @@ (IF default = Absent THEN <<>> ELSE DefaultKey :> default)

ExpectationMaps ==
    {ExpectationMap(own, other, default) :
         own \in {Absent, Str(<<"a">>), Str(<<"b">>)},
         other \in {Absent, Str(<<"a", "|", "b">>), Str(<<"a", "a">>)},
         default \in {Absent, Str(<<"a">>), Str(<<"a", "a">>)}}

InitRegression ==
    /\ IdleRunner
    /\ var_coords = <<>>
    /\ font \in Fonts
    /\ pc = "call"
    /\ \E text \in {Tx, Ty}, m \in ExpectationMaps :
           call = [test |-> [input |-> Str(text), expectation |-> Obj(m)],
                   configuration |-> EmptyDict]
    /\ ret = None

CallRegression ==
    Return(run_shaping_regression(font, call.test, call.configuration, <<>>, None))

SpecRegression == InitRegression /\ [][CallRegression]_vars

\* The call compared the shaped input with expectation e: no exception, and
\* a failure recorded exactly when the serialization differs from e
ComparedWith(e) ==
    /\ ret.raised = ""
    /\ IF _serialize_buffer(font, font.shape[call.test["input"].s], ~HasChar(e, "+")) = e
       THEN ret.failed = <<>>
       ELSE Len(ret.failed) = 1 /\ ret.failed[1].expectation = e

\* C17: with a per-font expectation the comparison is with the entry of the
\* font's file name when the mapping has one, with or without a "default"
\* entry beside it, and with the "default" entry only when it has none.
C17_PerFontExpectation ==
    pc = "done"
    => /\ font.name \in DOMAIN call.test["expectation"].o
          => ComparedWith(call.test["expectation"].o[font.name].s)
       /\ (/\ font.name \notin DOMAIN call.test["expectation"].o
           /\ DefaultKey \in DOMAIN call.test["expectation"].o)
          => ComparedWith(call.test["expectation"].o[DefaultKey].s)

\* The same for the mappings that have a "default" entry
PerFontExpectationWithDefault ==
    (pc = "done" /\ DefaultKey \in DOMAIN call.test["expectation"].o)
    => IF font.name \in DOMAIN call.test["expectation"].o
       THEN ComparedWith(call.test["expectation"].o[font.name].s)
       ELSE ComparedWith(call.test["expectation"].o[DefaultKey].s)

\* The first test that the filter of check c accepts and that has no input
NoInputAt(c, tests, configuration, k) ==
    /\ test_filter(c, tests[k].o, configuration)
    /\ "input" \notin DOMAIN tests[k].o
    /\ \A j \in 1..(k - 1) :
           ~(test_filter(c, tests[j].o, configuration) /\ "input" \notin DOMAIN tests[j].o)

\* The file without the tests that have no input and that the filter rejects
WithoutRejected(c, file) ==
    File(Obj([file.value.o EXCEPT
                  !["tests"] = List(SelectSeq(file.value.o["tests"].l,
                        LAMBDA t : \/ "input" \in DOMAIN t.o
                                   \/ test_filter(c, t.o, Get(file.value.o, "configuration",
                                                               Obj(EmptyDict)).o)))]))

Loaded(file) == file.parses /\ file.value.t = "dict" /\ "tests" \in DOMAIN file.value.o

\* C18: the steps of a case are the filter, then the input check, then
\* exclude/only.  A case without input that the filter rejects changes
\* nothing in what the check yields; a case without input that the filter
\* accepts gives the one Fail for the missing input, the last result of the
\* check, also when its exclude/only would remove it for the font.
C18_FilterInputExclude ==
    \A i \in 1..Len(history) :
        (Loaded(directory[history[i].file]) /\ history[i].outcome # "raised")
        => /\ history[i].outcome = "missing-input"
              <=> \E k \in 1..Len(TestsOf(history[i].file)) :
                      NoInputAt(history[i].check, TestsOf(history[i].file),
                                ConfigurationOf(history[i].file), k)
           /\ history[i].outcome = "missing-input"
              => /\ Len(history[i].yielded) = 1
                 /\ history[i].yielded[1].status = "Fail"
                 /\ history[i].yielded[1].code = "shaping-missing-input"
                 /\ ResultsOf(history[i].check)[Len(ResultsOf(history[i].check))]
                    = history[i].yielded[1]
                 /\ \A j \in (i + 1)..Len(history) : history[j].check # history[i].check
           /\ history[i].file = 1
              => history[i].yielded
                 = FileStep(history[i].check, font, 1,
                            WithoutRejected(history[i].check, directory[1]),
                            FALSE, None).yielded

\* A check returned after the Fail for a case without input that exclude
\* removes for the font
C18_NoInputButExcluded ==
    /\ pc = "returned"
    /\ \E i \in 1..Len(history) :
           /\ history[i].check = Checks[check]
           /\ history[i].outcome = "missing-input"
           /\ \E k \in 1..Len(TestsOf(history[i].file)) :
                  /\ NoInputAt(history[i].check, TestsOf(history[i].file),
                               ConfigurationOf(history[i].file), k)
                  /\ Excluded(font, TestsOf(history[i].file)[k].o)
           /\ \E k \in 1..Len(TestsOf(history[i].file)) :
                  /\ ~test_filter(history[i].check, TestsOf(history[i].file)[k].o,
                                  ConfigurationOf(history[i].file))
                  /\ "input" \notin DOMAIN TestsOf(history[i].file)[k].o


\* The Fail that reports the failures recorded for the document of a step
ReportsFailures(h) ==
    \E k \in 1..Len(h.yielded) :
        /\ h.yielded[k].status = "Fail"
        /\ h.yielded[k].file = h.file
        /\ h.yielded[k].code # "shaping-missing-input"
        /\ h.yielded[k].items # <<>>

\* C19: no recorded failure is lost: whenever the executors left failures in
\* the accumulator of a document, the check yields the Fail that reports
\* them, also when a later case of the document has no input (stated for
\* the documents out of which no exception came).
C19_NoFailureLost ==
    \A i \in 1..Len(history) :
        (history[i].failed # <<>> /\ history[i].outcome # "raised")
        => ReportsFailures(history[i])

\* The failures of a document whose loop over the cases ran to its end are
\* reported unless making the report raised, and the accumulator of a
\* document holds what its own cases give from an empty one.
FailuresOfCompletedDocument ==
    \A i \in 1..Len(history) :
        /\ (history[i].failed # <<>> /\ history[i].outcome = "completed")
           => ReportsFailures(history[i])
        /\ (Loaded(directory[history[i].file]) /\ history[i].check # "collides")
           => history[i].failed
              = RunTests(history[i].check, font, TestsOf(history[i].file), 1,
                         ConfigurationOf(history[i].file), None, NewAcc(FALSE)).failed


(***************************************************************************)
(* update-shaping-tests.py: update_shaping_output on its own               *)
(*                                                                         *)
(* A font file is [font, fvar, instances, coords]: the font, whether       *)
(* TTFont has an "fvar" table, the coordinates of fvar.instances, and the  *)
(* design coordinates of a newly made hb.Font.  The advance of every glyph *)
(* of a variable font grows with its weight coordinate.                    *)
(***************************************************************************)

MaxInputs == 2        \* entries of the "input" list of the YAML file
MaxFonts == 2         \* font paths on the command line
MaxInstances == 2     \* named instances of the variable font

Regular == Obj([wght |-> Num(400)])
Bold == Obj([wght |-> Num(700)])
Black == Obj([wght |-> Num(900)])

\* The k-th named instance of the variable font
InstanceAt(k) == <<Bold, Black, Regular>>[((k - 1) % 3) + 1]

StaticFile == [font |-> FontA, fvar |-> FALSE, instances |-> <<>>, coords |-> <<>>]

VariableFile(n) ==
    [font |-> FontAB, fvar |-> TRUE, instances |-> [k \in 1..n |-> InstanceAt(k)],
     coords |-> <<400>>]

FontFiles == {StaticFile} \cup {VariableFile(n) : n \in 0..MaxInstances}

\* hb.shape at the design coordinates coords
hb_shape(f, text, coords) ==
    [i \in 1..Len(f.shape[text]) |->
        [f.shape[text][i] EXCEPT
            !.position[3] = @ + (IF coords = <<>> THEN 0 ELSE coords[1] \div 100)]]

\* get_shaping_parameters of update-shaping-tests.py: only the keys whose
\* value, of the input or else of the defaults, is truthy
update_get_shaping_parameters(input, configuration) ==
    [key \in {k \in ShapingParameterKeys :
                 Truthy(Get(input, k, Get(Get(configuration, "defaults", Obj(EmptyDict)).o,
                                          k, None)))}
     |-> Get(input, key, Get(Get(configuration, "defaults", Obj(EmptyDict)).o, key, None))]

\* The keys of TestDefinition.__annotations__
TestDefinitionKeys ==
    {"script", "direction", "language", "features", "shaper", "variations",
     "input", "expectation", "only"}

Glyphstream == Str(<<"g">>)
Full == Str(<<"f">>)

\* "for key in TestDefinition.__annotations__.keys(): if value := input.get(key)"
CopyKeys(input, test) ==
    [key \in DOMAIN test \cup {k \in TestDefinitionKeys : Truthy(Get(input, k, None))}
     |-> IF Truthy(Get(input, key, None)) /\ key \in TestDefinitionKeys
         THEN input[key] ELSE test[key]]

\* shape_run: the test, and the coordinates of the hb.Font afterwards
shape_run(file, coords, text, input, configuration) ==
    [test |-> CopyKeys(input,
                  [only |-> Str(file.font.name), input |-> Str(text),
                   expectation |->
                       Str(_serialize_buffer(file.font,
                               hb_shape(file.font, text,
                                   SetVariations_enter(coords,
                                       Get(update_get_shaping_parameters(input, configuration),
                                           "variations", None)).coords),
                               Get(input, "comparison_mode", Full) = Glyphstream))]),
     coords |-> update_shape_coords(coords, update_get_shaping_parameters(input, configuration),
                                    FALSE).coords]

\* "for instance in fvar.instances": instance_input gets the coordinates of
\* the instance, and shape_run is called with input
RECURSIVE InstanceRuns(_, _, _, _, _, _)
InstanceRuns(file, instances, text, input, configuration, acc) ==
    IF instances = <<>> THEN acc
    ELSE InstanceRuns(file, Tail(instances), text, input, configuration,
             [tests |-> Append(acc.tests,
                               shape_run(file, acc.coords, text, input, configuration).test),
              coords |-> shape_run(file, acc.coords, text, input, configuration).coords])

\* "variations" not in shaping_input["input"], a list of inputs
HasVariationsEntry(inputs) ==
    PyIn(<<"v", "a", "r", "i", "a", "t", "i", "o", "n", "s">>, List(inputs))

\* "for text in input["text"]"
RECURSIVE TextRuns(_, _, _, _, _, _)
TextRuns(file, inputs, texts, input, configuration, acc) ==
    IF texts = <<>> THEN acc
    ELSE TextRuns(file, inputs, Tail(texts), input, configuration,
             IF file.fvar /\ ~HasVariationsEntry(inputs)
             THEN InstanceRuns(file, file.instances, Head(texts).s, input, configuration, acc)
             ELSE InstanceRuns(file, <<None>>, Head(texts).s, input, configuration, acc))

\* "for input in shaping_input["input"]"
RECURSIVE InputRuns(_, _, _, _, _)
InputRuns(file, inputs, rest, configuration, acc) ==
    IF rest = <<>> THEN acc
    ELSE InputRuns(file, inputs, Tail(rest), configuration,
             TextRuns(file, inputs, Head(rest).o["text"].l, Head(rest).o, configuration, acc))

\* "for font_path in font_paths", each with a new hb.Font
RECURSIVE FontRuns(_, _, _, _)
FontRuns(font_paths, inputs, configuration, tests) ==
    IF font_paths = <<>> THEN tests
    ELSE FontRuns(Tail(font_paths), inputs, configuration,
             InputRuns(Head(font_paths), inputs, inputs, configuration,
                       [tests |-> tests, coords |-> Head(font_paths).coords]).tests)

update_shaping_output(shaping_input, font_paths) ==
    [k \in {"tests"} \cup (DOMAIN shaping_input \cap {"configuration"}) |->
        IF k = "tests"
        THEN List(FontRuns(font_paths, shaping_input["input"].l,
                           Get(shaping_input, "configuration", Obj(EmptyDict)).o, <<>>))
        ELSE shaping_input["configuration"]]

ShapingInputs ==
    {Obj([text |-> List(<<Str(Tx)>>)]),
     Obj([text |-> List(<<Str(Tx), Str(Ty)>>), features |-> Liga]),
     Obj([text |-> List(<<Str(Ty)>>), comparison_mode |-> Glyphstream]),
     Obj([text |-> List(<<Str(Tx)>>), variations |-> Black])}

SeqsUpTo(S, n) == UNION {[1..m -> S] : m \in 0..n}

InitUpdate ==
    /\ Idle
    /\ font = FontA
    /\ pc = "call"
    /\ \E inputs \in SeqsUpTo(ShapingInputs, MaxInputs),
          font_paths \in SeqsUpTo(FontFiles, MaxFonts) \ {<<>>} :
           \E shaping_input \in {[input |-> List(inputs)],
                                 [input |-> List(inputs),
                                  configuration |-> Obj([defaults |-> Obj([script |-> Latn])])]} :
               call = [shaping_input |-> shaping_input, font_paths |-> font_paths]
    /\ ret = None

CallUpdate == Return(update_shaping_output(call.shaping_input, call.font_paths))

SpecUpdate == InitUpdate /\ [][CallUpdate]_vars

\* The one font and the one input of a call that has one of each
OneFile == call.font_paths[1]
OneInput == call.shaping_input["input"].l[1].o
OneOfEach == Len(call.font_paths) = 1 /\ Len(call.shaping_input["input"].l) = 1

\* What shaping text with the one font at the coordinates of variations gives
ShapedAt(text, variations) ==
    Str(_serialize_buffer(OneFile.font,
            hb_shape(OneFile.font, text, set_variations(OneFile.coords, variations)),
            Get(OneInput, "comparison_mode", Full) = Glyphstream))

\* C20: for a variable font with n named instances and an input without
\* variations of its own, each text gets one test per instance, shaped at
\* the coordinates of the instance and with them as its "variations"; for a
\* font that is not variable each (input, text) gets exactly one test.
C20_OneTestPerInstance ==
    (pc = "done" /\ OneOfEach /\ "variations" \notin DOMAIN OneInput)
    => IF OneFile.fvar
       THEN /\ Len(ret["tests"].l) = Len(OneInput["text"].l) * Len(OneFile.instances)
            /\ \A t \in 1..Len(OneInput["text"].l), k \in 1..Len(OneFile.instances) :
                   LET test == ret["tests"].l[(t - 1) * Len(OneFile.instances) + k]
                   IN  /\ test["input"] = OneInput["text"].l[t]
                       /\ "variations" \in DOMAIN test
                       /\ test["variations"] = OneFile.instances[k]
                       /\ test["expectation"]
                          = ShapedAt(OneInput["text"].l[t].s, OneFile.instances[k])
       ELSE /\ Len(ret["tests"].l) = Len(OneInput["text"].l)
            /\ \A t \in 1..Len(OneInput["text"].l) :
                   ret["tests"].l[t]["input"] = OneInput["text"].l[t]

\* The number of tests is as said, and without variations of its own each
\* test is shaped at the coordinates of a new hb.Font and has no
\* "variations"
OneTestPerInstanceAtDefault ==
    (pc = "done" /\ OneOfEach /\ "variations" \notin DOMAIN OneInput)
    => /\ Len(ret["tests"].l)
          = Len(OneInput["text"].l) * (IF OneFile.fvar THEN Len(OneFile.instances) ELSE 1)
       /\ \A j \in 1..Len(ret["tests"].l) :
              /\ "variations" \notin DOMAIN ret["tests"].l[j]
              /\ ret["tests"].l[j]["only"] = Str(OneFile.font.name)
              /\ \E t \in 1..Len(OneInput["text"].l) :
                     /\ ret["tests"].l[j]["input"] = OneInput["text"].l[t]
                     /\ ret["tests"].l[j]["expectation"]
                        = ShapedAt(OneInput["text"].l[t].s, Obj(EmptyDict))


(***************************************************************************)
(* The tests update-shaping-tests.py writes, run by check-shaping.py       *)
(***************************************************************************)

\* The output of update_shaping_output after json.dumps (main of
\* update-shaping-tests.py) and json.loads (the runner): a document file
WrittenDocument(shaping_output) ==
    File(Obj([k \in DOMAIN shaping_output |->
                 IF k = "tests"
                 THEN List([i \in 1..Len(shaping_output["tests"].l) |->
                               Obj(shaping_output["tests"].l[i])])
                 ELSE shaping_output[k]]))

\* call: what update-shaping-tests.py is run with; font: the font
\* check-shaping.py is run with afterwards
InitWritten ==
    /\ Idle
    /\ font \in Fonts
    /\ pc = "call"
    /\ \E inputs \in SeqsUpTo(ShapingInputs, MaxInputs),
          font_paths \in SeqsUpTo(FontFiles, MaxFonts) \ {<<>>} :
           call = [shaping_input |-> [input |-> List(inputs)], font_paths |-> font_paths]
    /\ ret = None

\* main of update-shaping-tests.py: the document is written
WriteTests ==
    /\ pc = "call"
    /\ pc' = "written"
    /\ directory' = <<WrittenDocument(update_shaping_output(call.shaping_input,
                                                            call.font_paths))>>
    /\ UNCHANGED <<config, font, var_coords, check, fileIdx, shaping_file_found, ran_a_test,
                   extra_data, results, all_pass, exit_status, history, call, ret>>

\* The regression check's iteration on the written document; ret is the
\* record of the iteration
RunWritten ==
    /\ pc = "written"
    /\ pc' = "done"
    /\ ret' = FileStep("regression", font, 1, directory[1], FALSE, None).hist
    /\ UNCHANGED <<config, directory, font, var_coords, check, fileIdx, shaping_file_found,
                   ran_a_test, extra_data, results, all_pass, exit_status, history, call>>

NextWritten == WriteTests \/ RunWritten

SpecWritten == InitWritten /\ [][NextWritten]_vars

\* C21: a test written for font file F, whose "only" is F's file name, is
\* executed when the current font's file name is F's, and skipped for every
\* font with another file name, also one that is a part of F's name.
C21_OnlyTheWritingFont ==
    pc = "done"
    => \A i \in 1..Len(TestsOf(1)) :
           i \in {ret.executed[j] : j \in 1..Len(ret.executed)}
           <=> font.name = TestsOf(1)[i].o["only"].s

\* A written test is executed exactly for the fonts whose file name is found
\* in the file name of the font it was written for
WrittenTestRunsForNameWithin ==
    pc = "done"
    => \A i \in 1..Len(TestsOf(1)) :
           i \in {ret.executed[j] : j \in 1..Len(ret.executed)}
           <=> IsSubstring(font.name, TestsOf(1)[i].o["only"].s)

====
